---- MODULE Spec2Model ----
(***************************************************************************)
(* Release-watcher: the release health analysis of generateReport,        *)
(* getEmptyAndStaleStreams and checkUpgrades (latest snapshot of the       *)
(* report code), over bounded release-stream maps and upgrade graphs.      *)
(*                                                                         *)
(* A release stream name is the record [minor, kind] read off the text     *)
(* "4.<minor>.0-0.<kind>"; a payload is the record [minor, ts] read off    *)
(* "4.<minor>...-YYYY-MM-DD-HHMMSS" (minor = NoMinor: no "4.<n>" token,    *)
(* ts = NoTs: no well-formed date suffix).  Time is counted in ticks.      *)
(***************************************************************************)
EXTENDS Integers, Sequences, FiniteSets, TLC

VARIABLES
    acceptedReleases,   \* map stream -> payload list served by /releasestreams/accepted
    allReleases,        \* map stream -> payload list served by /releasestreams/all
    nightlyGraph,       \* GraphMap: payload -> list of source versions
    o,                  \* the options of the run
    now,                \* time.Now()
    pc,                 \* "call" before the operation, "done" after it
    result,             \* what the operation returned
    responses,          \* what the release API answers to the fetches of the operation
    locals,             \* the local variables of the calls in progress
    mutex,              \* server.go: mutex, TRUE while a handler holds it
    msgCache,           \* server.go: msgCache, the event identifiers seen
    posts               \* the messages posted to the chat by sendMessage

vars == <<acceptedReleases, allReleases, nightlyGraph, o, now, pc, result, responses, locals, mutex, msgCache, posts>>

\* the variables of the webhook server and of the calls in progress
serverVars == <<responses, locals, mutex, msgCache, posts>>

----------------------------------------------------------------------------
(* Bounds of the model *)

MaxMinor == 10

MaxTs == 2

MaxStreams == 2

MaxPayloads == 2

MaxUpgradeSize == 4

MaxReportSize == 3

Minors == 9..MaxMinor

\* "4.<minor>.0-0.ci", "4.<minor>.0-0.nightly" and one stream that is no z-stream
StreamNames == [minor : Minors, kind : {"ci", "nightly"}] \cup {[minor |-> MaxMinor, kind |-> "okd"]}

NoTs == -1

NoMinor == 0

ZeroTime == -2000

MaxDuration == 1000

Timestamps == {NoTs} \cup (0..MaxTs)

Limits == 1..MaxTs

EmptyMap == [x \in {} |-> <<>>]

----------------------------------------------------------------------------
(* Helpers of the Go runtime *)

\* m[k] = v on a Go map
MapSet(m, k, v) == [x \in (DOMAIN m) \cup {k} |-> IF x = k THEN v ELSE m[x]]

\* m[k] on a map[string][]string: the nil slice when k is absent
MapGet(m, k) == IF k \in DOMAIN m THEN m[k] ELSE <<>>

\* time.Time.Sub: the difference, saturated at the largest Duration
Sub(t, u) == IF t - u > MaxDuration THEN MaxDuration ELSE t - u

Range(q) == {q[i] : i \in 1..Len(q)}

\* the orders in which a range over a Go map may visit the keys
Orders(S) == {f \in [1..Cardinality(S) -> S] : \A i, j \in 1..Cardinality(S) : f[i] = f[j] => i = j}

----------------------------------------------------------------------------
(* Version filter and timestamp extractor *)

\* zReleaseRegex.FindStringSubmatch(stream) != nil
zReleaseRegex(stream) == stream.kind \in {"ci", "nightly"} /\ stream.minor >= 1

\* strconv.Atoi(matches[1])
zReleaseMinor(stream) == stream.minor

\* getPayloadTimestamp with a payload without a date taken as built now
getPayloadTimestampLenient(payload) ==
    [ok |-> TRUE, ts |-> IF payload.ts = NoTs THEN MaxTs ELSE payload.ts]

\* getPayloadTimestamp: [ok, ts]
getPayloadTimestamp(payload) ==
    IF payload.ts = NoTs
    THEN [ok |-> FALSE, ts |-> ZeroTime]
    ELSE [ok |-> TRUE, ts |-> payload.ts]

----------------------------------------------------------------------------
(* Stream classifier *)

\* ScanPayloads with a payload as old as the threshold counted as fresh
RECURSIVE ScanPayloadsInclusive(_, _, _, _, _)
ScanPayloadsInclusive(payloads, i, threshold, t, acc) ==
    IF i > Len(payloads) THEN acc
    ELSE LET r == getPayloadTimestamp(payloads[i])
         IN  IF ~r.ok
             THEN ScanPayloadsInclusive(payloads, i + 1, threshold, t, acc)
             ELSE LET delta == Sub(t, r.ts)
                      fresh == IF delta <= threshold THEN TRUE ELSE acc.fresh
                      newest == IF r.ts > acc.newest THEN r.ts ELSE acc.newest
                  IN  ScanPayloadsInclusive(payloads, i + 1, threshold, t,
                                            [fresh |-> fresh, newest |-> newest])

\* the payload loop of getEmptyAndStaleStreams: [fresh, newest]
RECURSIVE ScanPayloads(_, _, _, _, _)
ScanPayloads(payloads, i, threshold, t, acc) ==
    IF i > Len(payloads) THEN acc
    ELSE LET r == getPayloadTimestamp(payloads[i])
         IN  IF ~r.ok
             THEN ScanPayloads(payloads, i + 1, threshold, t, acc)
             ELSE LET delta == Sub(t, r.ts)
                      fresh == IF delta < threshold THEN TRUE ELSE acc.fresh
                      newest == IF r.ts > acc.newest THEN r.ts ELSE acc.newest
                  IN  ScanPayloads(payloads, i + 1, threshold, t,
                                   [fresh |-> fresh, newest |-> newest])

\* ClassifyStream without the continue after a stream is put in the empty set
ClassifyStreamFallThrough(acc, stream, releases, threshold, oldestMinor, newestMinor, t) ==
    IF ~zReleaseRegex(stream) THEN acc
    ELSE IF zReleaseMinor(stream) < oldestMinor THEN acc
    ELSE IF zReleaseMinor(stream) > newestMinor THEN acc
    ELSE LET a == IF Len(MapGet(releases, stream)) = 0
                  THEN [acc EXCEPT !.empty = @ \cup {stream}]
                  ELSE acc
             s == ScanPayloads(MapGet(releases, stream), 1, threshold, t,
                               [fresh |-> FALSE, newest |-> ZeroTime])
         IN  IF ~s.fresh
             THEN [a EXCEPT !.stale = MapSet(@, stream, Sub(t, s.newest))]
             ELSE a

\* one iteration of the loop over releaseKeys
ClassifyStream(acc, stream, releases, threshold, oldestMinor, newestMinor, t) ==
    IF ~zReleaseRegex(stream) THEN acc
    ELSE IF zReleaseMinor(stream) < oldestMinor THEN acc
    ELSE IF zReleaseMinor(stream) > newestMinor THEN acc
    ELSE IF Len(MapGet(releases, stream)) = 0
         THEN [acc EXCEPT !.empty = @ \cup {stream}]
    ELSE LET s == ScanPayloads(MapGet(releases, stream), 1, threshold, t,
                               [fresh |-> FALSE, newest |-> ZeroTime])
         IN  IF ~s.fresh
             THEN [acc EXCEPT !.stale = MapSet(@, stream, Sub(t, s.newest))]
             ELSE acc

RECURSIVE ClassifyLoop(_, _, _, _, _, _, _, _)
ClassifyLoop(releaseKeys, i, releases, threshold, oldestMinor, newestMinor, t, acc) ==
    IF i > Len(releaseKeys) THEN acc
    ELSE ClassifyLoop(releaseKeys, i + 1, releases, threshold, oldestMinor, newestMinor, t,
                      ClassifyStream(acc, releaseKeys[i], releases, threshold,
                                     oldestMinor, newestMinor, t))

\* getEmptyAndStaleStreams, visiting the keys in the order releaseKeys: [empty, stale]
getEmptyAndStaleStreams(releases, threshold, oldestMinor, newestMinor, t, releaseKeys) ==
    ClassifyLoop(releaseKeys, 1, releases, threshold, oldestMinor, newestMinor, t,
                 [empty |-> {}, stale |-> EmptyMap])

----------------------------------------------------------------------------
(* Upgrade validator *)

\* extractMinorRegex.FindStringSubmatch(text) != nil, on a payload or a source version
extractMinorRegex(version) == version.minor # NoMinor

\* strconv.Atoi(matches[1]) of extractMinorRegex
extractMinor(version) == version.minor

\* a nil *found
Nil == [nil |-> TRUE, Version |-> [minor |-> NoMinor], Age |-> 0]

\* &found{Version: from, Age: age}
Found(from, age) == [nil |-> FALSE, Version |-> from, Age |-> age]

\* ScanSources with every source of a lower minor version taken as a minor level upgrade
RECURSIVE ScanSourcesAnyLower(_, _, _, _, _)
ScanSourcesAnyLower(sources, j, toVersion, age, f) ==
    IF j > Len(sources) THEN f
    ELSE LET from == sources[j]
         IN  IF ~extractMinorRegex(from)
             THEN ScanSourcesAnyLower(sources, j + 1, toVersion, age, f)
             ELSE LET fromVersion == extractMinor(from)
                      f1 == IF toVersion = fromVersion
                            THEN [f EXCEPT !.foundPatch = Found(from, age)]
                            ELSE f
                      f2 == IF toVersion > fromVersion
                            THEN [f1 EXCEPT !.foundMinor = Found(from, age)]
                            ELSE f1
                  IN  IF ~f2.foundMinor.nil /\ ~f2.foundPatch.nil
                      THEN f2
                      ELSE ScanSourcesAnyLower(sources, j + 1, toVersion, age, f2)

\* the loop over graph[payload]: [foundMinor, foundPatch]
RECURSIVE ScanSources(_, _, _, _, _)
ScanSources(sources, j, toVersion, age, f) ==
    IF j > Len(sources) THEN f
    ELSE LET from == sources[j]
         IN  IF ~extractMinorRegex(from)
             THEN ScanSources(sources, j + 1, toVersion, age, f)
             ELSE LET fromVersion == extractMinor(from)
                      f1 == IF toVersion = fromVersion
                            THEN [f EXCEPT !.foundPatch = Found(from, age)]
                            ELSE f
                      f2 == IF toVersion = fromVersion + 1
                            THEN [f1 EXCEPT !.foundMinor = Found(from, age)]
                            ELSE f1
                  IN  IF ~f2.foundMinor.nil /\ ~f2.foundPatch.nil
                      THEN f2
                      ELSE ScanSources(sources, j + 1, toVersion, age, f2)

\* ScanUpgrades with a payload exactly as old as the threshold passed over
RECURSIVE ScanUpgradesStrict(_, _, _, _, _, _)
ScanUpgradesStrict(graph, payloads, i, stalenessThreshold, t, f) ==
    IF i > Len(payloads) THEN f
    ELSE LET payload == payloads[i]
             r == getPayloadTimestamp(payload)
             age == Sub(t, r.ts)
         IN  IF ~r.ok \/ age >= stalenessThreshold \/ ~extractMinorRegex(payload)
             THEN ScanUpgradesStrict(graph, payloads, i + 1, stalenessThreshold, t, f)
             ELSE ScanUpgradesStrict(graph, payloads, i + 1, stalenessThreshold, t,
                                     ScanSources(MapGet(graph, payload), 1,
                                                 extractMinor(payload), age, f))

\* the loop over the payloads of one release: [foundMinor, foundPatch]
RECURSIVE ScanUpgrades(_, _, _, _, _, _)
ScanUpgrades(graph, payloads, i, stalenessThreshold, t, f) ==
    IF i > Len(payloads) THEN f
    ELSE LET payload == payloads[i]
             r == getPayloadTimestamp(payload)
             age == Sub(t, r.ts)
         IN  IF ~r.ok
             THEN ScanUpgrades(graph, payloads, i + 1, stalenessThreshold, t, f)
             ELSE IF age > stalenessThreshold
             THEN ScanUpgrades(graph, payloads, i + 1, stalenessThreshold, t, f)
             ELSE IF ~extractMinorRegex(payload)
             THEN ScanUpgrades(graph, payloads, i + 1, stalenessThreshold, t, f)
             ELSE ScanUpgrades(graph, payloads, i + 1, stalenessThreshold, t,
                               ScanSources(MapGet(graph, payload), 1,
                                           extractMinor(payload), age, f))

NoPatchText == "Does not have a recent valid patch level upgrade"

HasPatchText == "Has a recent valid patch level upgrade from"

NoMinorText == "Does not have a recent valid minor level upgrade"

HasMinorText == "Has a recent valid minor level upgrade from"

\* a finding without arguments, and fmt.Sprintf("... from %s %0.1f days ago", version, days)
Plain(text) == [text |-> text, version |-> [minor |-> NoMinor], age |-> 0, limit |-> 0]

Sprintf(text, found) ==
    [text |-> text, version |-> found.Version, age |-> found.Age, limit |-> 0]

\* UpgradeFindings with the positive entries whatever includeHealthy is
UpgradeFindingsAlways(f, includeHealthy) ==
    <<IF f.foundPatch.nil THEN Plain(NoPatchText) ELSE Sprintf(HasPatchText, f.foundPatch),
      IF f.foundMinor.nil THEN Plain(NoMinorText) ELSE Sprintf(HasMinorText, f.foundMinor)>>

\* the findings appended to report[release] once the payloads are scanned
UpgradeFindings(f, includeHealthy) ==
    (IF f.foundPatch.nil THEN <<Plain(NoPatchText)>>
     ELSE IF includeHealthy THEN <<Sprintf(HasPatchText, f.foundPatch)>>
     ELSE <<>>)
    \o
    (IF f.foundMinor.nil THEN <<Plain(NoMinorText)>>
     ELSE IF includeHealthy THEN <<Sprintf(HasMinorText, f.foundMinor)>>
     ELSE <<>>)

\* report[release] = append(report[release], ...): no entry when nothing is appended
AppendAll(report, stream, findings) ==
    IF findings = <<>> THEN report
    ELSE MapSet(report, stream, MapGet(report, stream) \o findings)

\* CheckRelease with the streams of the two minor versions that bound the window left out
CheckReleaseExclusive(report, graph, release, payloads, stalenessThreshold, oldestMinor, newestMinor, includeHealthy, t) ==
    IF ~zReleaseRegex(release) THEN report
    ELSE IF zReleaseMinor(release) <= oldestMinor THEN report
    ELSE IF zReleaseMinor(release) >= newestMinor THEN report
    ELSE AppendAll(report, release,
                   UpgradeFindings(ScanUpgrades(graph, payloads, 1, stalenessThreshold, t,
                                                [foundMinor |-> Nil, foundPatch |-> Nil]),
                                   includeHealthy))

\* one iteration of the loop over releases
CheckRelease(report, graph, release, payloads, stalenessThreshold, oldestMinor, newestMinor, includeHealthy, t) ==
    IF ~zReleaseRegex(release) THEN report
    ELSE IF zReleaseMinor(release) < oldestMinor THEN report
    ELSE IF zReleaseMinor(release) > newestMinor THEN report
    ELSE AppendAll(report, release,
                   UpgradeFindings(ScanUpgrades(graph, payloads, 1, stalenessThreshold, t,
                                                [foundMinor |-> Nil, foundPatch |-> Nil]),
                                   includeHealthy))

RECURSIVE CheckLoop(_, _, _, _, _, _, _, _, _, _)
CheckLoop(keys, i, report, graph, releases, stalenessThreshold, oldestMinor, newestMinor, includeHealthy, t) ==
    IF i > Len(keys) THEN report
    ELSE CheckLoop(keys, i + 1,
                   CheckRelease(report, graph, keys[i], releases[keys[i]],
                                stalenessThreshold, oldestMinor, newestMinor,
                                includeHealthy, t),
                   graph, releases, stalenessThreshold, oldestMinor, newestMinor,
                   includeHealthy, t)

\* checkUpgrades, ranging over releases in the order keys: map stream -> findings
checkUpgrades(graph, releases, stalenessThreshold, oldestMinor, newestMinor, includeHealthy, t, keys) ==
    CheckLoop(keys, 1, EmptyMap, graph, releases, stalenessThreshold, oldestMinor,
              newestMinor, includeHealthy, t)

----------------------------------------------------------------------------
(* Report assembler *)

RecentlyBuiltText == "Has no accepted payloads, but the stream contains recently built payloads"

BuiltText == "Has no accepted payloads, but the stream contains built payloads"

AcceptedLagText == "Most recently accepted payload was %.1f days ago, latest built payload is < %.1f days old"

NoBuiltText == "Has no built payloads"

VeryStaleText == "Most recently built payload was %.1f days ago"

\* fmt.Sprintf(text, age.Hours()/24) and fmt.Sprintf(text, age.Hours()/24, limit.Hours()/24)
SprintfAge(text, age) ==
    [text |-> text, version |-> [minor |-> NoMinor], age |-> age, limit |-> 0]

SprintfAgeLimit(text, age, limit) ==
    [text |-> text, version |-> [minor |-> NoMinor], age |-> age, limit |-> limit]

\* the keys of S in the order in which order visits them
Induced(order, S) == SelectSeq(order, LAMBDA x : x \in S)

\* AcceptedEmptyLoop without the lookup in allStale: every stream with built payloads
\* is said to have recently built ones
RECURSIVE AcceptedEmptyLoopRecent(_, _, _, _, _)
AcceptedEmptyLoopRecent(keys, i, report, emptyAll, staleAll) ==
    IF i > Len(keys) THEN report
    ELSE LET stream == keys[i]
             next == IF stream \notin emptyAll
                     THEN AppendAll(report, stream, <<Plain(RecentlyBuiltText)>>)
                     ELSE report
         IN  AcceptedEmptyLoopRecent(keys, i + 1, next, emptyAll, staleAll)

\* for stream := range acceptedEmpty
RECURSIVE AcceptedEmptyLoop(_, _, _, _, _)
AcceptedEmptyLoop(keys, i, report, emptyAll, staleAll) ==
    IF i > Len(keys) THEN report
    ELSE LET stream == keys[i]
             next == IF stream \notin DOMAIN staleAll
                     THEN AppendAll(report, stream, <<Plain(RecentlyBuiltText)>>)
                     ELSE IF stream \notin emptyAll
                     THEN AppendAll(report, stream, <<Plain(BuiltText)>>)
                     ELSE report
         IN  AcceptedEmptyLoop(keys, i + 1, next, emptyAll, staleAll)

\* for stream, age := range acceptedStale
RECURSIVE AcceptedStaleLoop(_, _, _, _, _, _)
AcceptedStaleLoop(keys, i, report, staleAccepted, staleAll, acceptedStalenessLimit) ==
    IF i > Len(keys) THEN report
    ELSE LET stream == keys[i]
             next == IF stream \notin DOMAIN staleAll
                     THEN AppendAll(report, stream,
                                    <<SprintfAgeLimit(AcceptedLagText, staleAccepted[stream],
                                                      acceptedStalenessLimit)>>)
                     ELSE report
         IN  AcceptedStaleLoop(keys, i + 1, next, staleAccepted, staleAll,
                               acceptedStalenessLimit)

\* for stream := range allEmpty
RECURSIVE AllEmptyLoop(_, _, _)
AllEmptyLoop(keys, i, report) ==
    IF i > Len(keys) THEN report
    ELSE AllEmptyLoop(keys, i + 1, AppendAll(report, keys[i], <<Plain(NoBuiltText)>>))

\* for stream, age := range allVeryStale
RECURSIVE VeryStaleLoop(_, _, _, _)
VeryStaleLoop(keys, i, report, veryStale) ==
    IF i > Len(keys) THEN report
    ELSE VeryStaleLoop(keys, i + 1,
                       AppendAll(report, keys[i],
                                 <<SprintfAge(VeryStaleText, veryStale[keys[i]])>>),
                       veryStale)

\* the decimal digits of n, as character codes
RECURSIVE Digits(_)
Digits(n) == IF n < 10 THEN <<48 + n>> ELSE Digits(n \div 10) \o <<48 + (n % 10)>>

\* what tells "4.<minor>.0-0.<kind>" from another stream name, as character codes:
\* the digits of the minor version, the dot after them, the first letter of the kind
StreamText(stream) ==
    Digits(stream.minor) \o <<46>> \o
    <<CASE stream.kind = "ci" -> 99 [] stream.kind = "nightly" -> 110 [] OTHER -> 111>>

\* a < b on strings
RECURSIVE LexLess(_, _, _)
LexLess(a, b, i) ==
    IF i > Len(b) THEN FALSE
    ELSE IF i > Len(a) THEN TRUE
    ELSE IF a[i] # b[i] THEN a[i] < b[i]
    ELSE LexLess(a, b, i + 1)

StringLess(x, y) == LexLess(StreamText(x), StreamText(y), 1)

\* MinorGreater with the lowest minor version first
MinorLess(x, y) == extractMinor(x) < extractMinor(y)

\* the less function of the sort.Slice call: highest minor version first
MinorGreater(x, y) == extractMinor(x) > extractMinor(y)

\* insertion sort, the sort of package sort on slices this short; less is the set of
\* the pairs <<x, y>> with x before y
RECURSIVE Sink(_, _, _)
Sink(data, j, less) ==
    IF j > 1 /\ <<data[j], data[j - 1]>> \in less
    THEN Sink([data EXCEPT ![j] = data[j - 1], ![j - 1] = data[j]], j - 1, less)
    ELSE data

RECURSIVE InsertionSort(_, _, _)
InsertionSort(data, i, less) ==
    IF i > Len(data) THEN data
    ELSE InsertionSort(Sink(data, i, less), i + 1, less)

\* sort.Strings(streams)
SortStrings(streams) ==
    InsertionSort(streams, 2, {p \in Range(streams) \X Range(streams) : StringLess(p[1], p[2])})

\* sort.Slice(streams, func(i, j int) bool { return iVersion > jVersion })
SortSlice(streams) ==
    InsertionSort(streams, 2, {p \in Range(streams) \X Range(streams) : MinorGreater(p[1], p[2])})

\* SortedStreams without the call of sort.Strings
SortedStreamsSliceOnly(reportKeys) == SortSlice(reportKeys)

\* the streams of the report in printing order; reportKeys is the order of the range
\* over report that collects them
SortedStreams(reportKeys) == SortSlice(SortStrings(reportKeys))

\* the text of the report: one section per stream, then the line naming the window
Render(streams, report, oldestMinor, newestMinor) ==
    [sections |-> [i \in 1..Len(streams) |->
                      [stream |-> streams[i], findings |-> report[streams[i]]]],
     ignored |-> <<oldestMinor, newestMinor>>]

\* generateReport from the call of checkUpgrades to the last loop that appends to
\* report; order is the order in which the ranges over the stream maps and over the
\* results of the classifier visit their keys
reportFindings(accepted, all, graph, opts, t, order) ==
    LET checked == checkUpgrades(graph, all, opts.upgradeStalenessLimit, opts.oldestMinor,
                                 opts.newestMinor, opts.includeHealthy, t,
                                 Induced(order, DOMAIN all))
        acc == getEmptyAndStaleStreams(accepted, opts.acceptedStalenessLimit,
                                       opts.oldestMinor, opts.newestMinor, t,
                                       Induced(order, DOMAIN accepted))
        al == getEmptyAndStaleStreams(all, opts.acceptedStalenessLimit,
                                      opts.oldestMinor, opts.newestMinor, t,
                                      Induced(order, DOMAIN all))
        r1 == AcceptedEmptyLoop(Induced(order, acc.empty), 1, checked, al.empty, al.stale)
        r2 == AcceptedStaleLoop(Induced(order, DOMAIN acc.stale), 1, r1, acc.stale,
                                al.stale, opts.acceptedStalenessLimit)
        r3 == AllEmptyLoop(Induced(order, al.empty), 1, r2)
        very == getEmptyAndStaleStreams(all, opts.builtStalenessLimit,
                                        opts.oldestMinor, opts.newestMinor, t,
                                        Induced(order, DOMAIN all))
        r4 == VeryStaleLoop(Induced(order, DOMAIN very.stale), 1, r3, very.stale)
    IN  [upgrades |-> checked,
         acceptedEmpty |-> acc.empty, acceptedStale |-> acc.stale,
         allEmpty |-> al.empty, allStale |-> al.stale,
         allVeryStale |-> very.stale,
         report |-> r4]

\* the rest of generateReport: the streams of report collected in the order reportKeys,
\* sorted and printed
reportText(r, opts, reportKeys) ==
    [upgrades |-> r.upgrades,
     acceptedEmpty |-> r.acceptedEmpty, acceptedStale |-> r.acceptedStale,
     allEmpty |-> r.allEmpty, allStale |-> r.allStale,
     allVeryStale |-> r.allVeryStale,
     output |-> Render(SortedStreams(reportKeys), r.report,
                       opts.oldestMinor, opts.newestMinor)]

\* generateReport after the fetches
generateReport(accepted, all, graph, opts, t, order, reportKeys) ==
    reportText(reportFindings(accepted, all, graph, opts, t, order), opts, reportKeys)

----------------------------------------------------------------------------
(* Inputs *)

RECURSIVE TotalLen(_, _)
TotalLen(m, S) ==
    IF S = {} THEN 0
    ELSE LET k == CHOOSE x \in S : TRUE
         IN  Len(m[k]) + TotalLen(m, S \ {k})

\* the payloads held by a release map
PayloadsIn(m) == UNION {Range(m[k]) : k \in DOMAIN m}

RECURSIVE SeqsUpTo(_, _)
SeqsUpTo(S, n) ==
    IF n = 0 THEN {<<>>}
    ELSE LET shorter == SeqsUpTo(S, n - 1)
         IN  shorter \cup {Append(q, x) : q \in {p \in shorter : Len(p) = n - 1}, x \in S}

\* the maps over the keys S whose lists, drawn from payloads[k], hold at most budget
\* elements in all
RECURSIVE MapsOver(_, _, _)
MapsOver(S, payloads, budget) ==
    IF S = {} THEN {EmptyMap}
    ELSE LET k == CHOOSE x \in S : TRUE
         IN  UNION { {MapSet(m, k, q) : m \in MapsOver(S \ {k}, payloads, budget - Len(q))} :
                     q \in SeqsUpTo(payloads[k], budget) }

\* the payloads of a stream: its own minor version, every timestamp
StreamPayloads(stream) == [minor : {stream.minor}, ts : Timestamps]

\* the payloads of a stream checked for upgrades: also one without a minor version
UpgradePayloads(stream) == StreamPayloads(stream) \cup {[minor |-> NoMinor, ts |-> MaxTs]}

\* the versions an edge into payload may start from: none extractable, two minors
\* below the payload up to one minor above it
SourcesOf(payload) ==
    IF payload.minor = NoMinor THEN {[minor |-> NoMinor]}
    ELSE [minor : {NoMinor} \cup ((payload.minor - 2)..(payload.minor + 1))]

\* a GraphMap holds a key only once an edge into it was read
DropEmpty(g) == [k \in {x \in DOMAIN g : g[x] # <<>>} |-> g[k]]

\* the streams of one call of the validator
UpgradeNames == {n \in StreamNames : n.minor = MaxMinor /\ n.kind # "ci"}

\* the value of result before the operation has returned
NoResult == [none |-> TRUE]

\* no fetch is answered, no call is in progress, the server has seen no event
NoServer ==
    /\ responses = NoResult
    /\ locals = NoResult
    /\ mutex = FALSE
    /\ msgCache = {}
    /\ posts = <<>>

Windows == {w \in Minors \X Minors : w[1] <= w[2]}

----------------------------------------------------------------------------
(* Specification of one call of getEmptyAndStaleStreams(allReleases, ...) *)

InitClassify ==
    \* at most MaxStreams streams holding MaxPayloads payloads in all
    /\ \E S \in {T \in SUBSET StreamNames : Cardinality(T) <= MaxStreams} :
          allReleases \in MapsOver(S, [n \in S |-> StreamPayloads(n)], MaxPayloads)
    /\ acceptedReleases = EmptyMap
    /\ nightlyGraph = EmptyMap
    /\ \E w \in Windows, limit \in Limits :
          o = [oldestMinor |-> w[1], newestMinor |-> w[2],
               acceptedStalenessLimit |-> limit, builtStalenessLimit |-> limit,
               upgradeStalenessLimit |-> limit, includeHealthy |-> FALSE]
    /\ now = MaxTs
    /\ pc = "call"
    /\ result = NoResult
    /\ NoServer

CallGetEmptyAndStaleStreams ==
    /\ pc = "call"
    /\ \E releaseKeys \in Orders(DOMAIN allReleases) :
          result' = getEmptyAndStaleStreams(allReleases, o.acceptedStalenessLimit,
                                            o.oldestMinor, o.newestMinor, now, releaseKeys)
    /\ pc' = "done"
    /\ UNCHANGED <<acceptedReleases, allReleases, nightlyGraph, o, now, serverVars>>

NextClassify == CallGetEmptyAndStaleStreams

SpecClassify == InitClassify /\ [][NextClassify]_vars

----------------------------------------------------------------------------
(* Specification of one call of checkUpgrades(nightlyGraph, allReleases, ...) *)

InitUpgrades ==
    \* one stream with its payloads and the edges into them, MaxUpgradeSize payloads
    \* and edges in all
    /\ \E n \in UpgradeNames :
          \E q \in SeqsUpTo(UpgradePayloads(n), MaxUpgradeSize) :
             \E g \in MapsOver(Range(q), [p \in Range(q) |-> SourcesOf(p)], MaxUpgradeSize - Len(q)) :
                /\ allReleases = MapSet(EmptyMap, n, q)
                /\ nightlyGraph = DropEmpty(g)
    /\ acceptedReleases = EmptyMap
    /\ \E limit \in Limits, healthy \in BOOLEAN :
          o = [oldestMinor |-> 9, newestMinor |-> MaxMinor,
               acceptedStalenessLimit |-> limit, builtStalenessLimit |-> limit,
               upgradeStalenessLimit |-> limit, includeHealthy |-> healthy]
    /\ now = MaxTs
    /\ pc = "call"
    /\ result = NoResult
    /\ NoServer

CallCheckUpgrades ==
    /\ pc = "call"
    /\ \E keys \in Orders(DOMAIN allReleases) :
          result' = checkUpgrades(nightlyGraph, allReleases, o.upgradeStalenessLimit,
                                  o.oldestMinor, o.newestMinor, o.includeHealthy, now, keys)
    /\ pc' = "done"
    /\ UNCHANGED <<acceptedReleases, allReleases, nightlyGraph, o, now, serverVars>>

NextUpgrades == CallCheckUpgrades

SpecUpgrades == InitUpgrades /\ [][NextUpgrades]_vars

----------------------------------------------------------------------------
(* Specification of one run of generateReport *)

\* the streams of a report: the two newest minor versions
ReportNames == {n \in StreamNames : n.minor >= MaxMinor - 1}

\* their payloads: without a date, the oldest date and the newest
ReportPayloads(stream) == [minor : {stream.minor}, ts : {NoTs, 0, MaxTs}]

\* the staleness limits of a report: below the age of the oldest payload and above it
ReportLimits == {1, MaxTs + 1}

ReportWindows == {w \in Windows : w[1] >= MaxMinor - 1}

Init ==
    \* the two stream maps and the graph hold MaxReportSize streams, payloads and
    \* edges in all
    /\ \E A \in SUBSET ReportNames, B \in SUBSET ReportNames :
          /\ Cardinality(A) + Cardinality(B) <= MaxReportSize
          /\ \E accepted \in MapsOver(A, [n \in A |-> ReportPayloads(n)],
                                      MaxReportSize - Cardinality(A) - Cardinality(B)) :
                \E all \in MapsOver(B, [n \in B |-> ReportPayloads(n)],
                                    MaxReportSize - Cardinality(A) - Cardinality(B)
                                      - TotalLen(accepted, A)) :
                   \E g \in MapsOver(PayloadsIn(all), [p \in PayloadsIn(all) |-> SourcesOf(p)],
                                     MaxReportSize - Cardinality(A) - Cardinality(B)
                                       - TotalLen(accepted, A) - TotalLen(all, B)) :
                      /\ acceptedReleases = accepted
                      /\ allReleases = all
                      /\ nightlyGraph = DropEmpty(g)
    /\ \E w \in ReportWindows, accLimit \in ReportLimits, builtLimit \in ReportLimits,
          upgLimit \in ReportLimits, healthy \in BOOLEAN :
          o = [oldestMinor |-> w[1], newestMinor |-> w[2],
               acceptedStalenessLimit |-> accLimit, builtStalenessLimit |-> builtLimit,
               upgradeStalenessLimit |-> upgLimit, includeHealthy |-> healthy]
    /\ now = MaxTs
    /\ pc = "call"
    /\ result = NoResult
    /\ NoServer

\* the stream names of the two maps
Streams == (DOMAIN acceptedReleases) \cup (DOMAIN allReleases)

GenerateReport ==
    /\ pc = "call"
    /\ \E order \in Orders(Streams) :
          LET r == reportFindings(acceptedReleases, allReleases, nightlyGraph, o, now, order)
          IN  \E reportKeys \in Orders(DOMAIN r.report) :
                 result' = reportText(r, o, reportKeys)
    /\ pc' = "done"
    /\ UNCHANGED <<acceptedReleases, allReleases, nightlyGraph, o, now, serverVars>>

Next == GenerateReport

Spec == Init /\ [][Next]_vars

----------------------------------------------------------------------------
(* generateReport on one stream with many payloads *)

MaxStreamSize == 3

\* the accepted payloads of a stream: not listed, none, or the payloads that were built
AcceptedOf(n, q) == {EmptyMap, MapSet(EmptyMap, n, <<>>), MapSet(EmptyMap, n, q)}

InitStream ==
    \* one z-stream with its payloads and the edges into them, MaxStreamSize payloads
    \* and edges in all; upgrades and accepted payloads have one staleness limit
    /\ \E n \in {x \in UpgradeNames : zReleaseRegex(x)} :
          \E q \in SeqsUpTo(UpgradePayloads(n), MaxStreamSize) :
             \E g \in MapsOver(Range(q), [p \in Range(q) |-> SourcesOf(p)], MaxStreamSize - Len(q)) :
                /\ allReleases = MapSet(EmptyMap, n, q)
                /\ nightlyGraph = DropEmpty(g)
                /\ acceptedReleases \in AcceptedOf(n, q)
    /\ \E accLimit \in Limits, builtLimit \in Limits, healthy \in BOOLEAN :
          o = [oldestMinor |-> 9, newestMinor |-> MaxMinor,
               acceptedStalenessLimit |-> accLimit, builtStalenessLimit |-> builtLimit,
               upgradeStalenessLimit |-> accLimit, includeHealthy |-> healthy]
    /\ now = MaxTs
    /\ pc = "call"
    /\ result = NoResult
    /\ NoServer

SpecStream == InitStream /\ [][Next]_vars

----------------------------------------------------------------------------
(* The webhook server of server.go: one handler per delivery *)

MaxDeliveries == 2

MaxEvents == 2

MaxWords == 2

Deliveries == 1..MaxDeliveries

\* a word of Event.Text: name is the text before "=", eq tells whether there is a "=",
\* ok and n are err == nil and the result of strconv.Atoi of the text after it
PlainWord(name) == [name |-> name, eq |-> FALSE, ok |-> FALSE, n |-> 0]

ArgWord(name, ok, n) == [name |-> name, eq |-> TRUE, ok |-> ok, n |-> n]

\* strings.Contains(req.Event.Text, word)
Contains(text, word) == \E i \in 1..Len(text) : text[i].name = word

\* the result of the loop over args that has not failed
Parsed(opts, tag) == [err |-> FALSE, arg |-> "", options |-> opts, tagPatchManager |-> tag]

\* the loop over args with every value taken as parsed: strconv.Atoi gives 0 with its error
RECURSIVE ParseArgsUnchecked(_, _, _, _)
ParseArgsUnchecked(args, i, opts, tag) ==
    IF i > Len(args) THEN Parsed(opts, tag)
    ELSE LET arg == args[i]
             t == tag \/ (arg.name = "tag" /\ ~arg.eq)
             h == IF arg.name = "healthy" /\ ~arg.eq
                  THEN [opts EXCEPT !.includeHealthy = TRUE] ELSE opts
         IN  IF arg.eq /\ arg.name = "min"
             THEN ParseArgsUnchecked(args, i + 1, [h EXCEPT !.oldestMinor = arg.n], t)
             ELSE IF arg.eq /\ arg.name = "max"
             THEN ParseArgsUnchecked(args, i + 1, [h EXCEPT !.newestMinor = arg.n], t)
             ELSE ParseArgsUnchecked(args, i + 1, h, t)

\* the loop over args of the report command: the options of the report and
\* tagPatchManager, or the argument whose value strconv.Atoi rejects
RECURSIVE ParseArgs(_, _, _, _)
ParseArgs(args, i, opts, tag) ==
    IF i > Len(args) THEN Parsed(opts, tag)
    ELSE LET arg == args[i]
             t == tag \/ (arg.name = "tag" /\ ~arg.eq)
             h == IF arg.name = "healthy" /\ ~arg.eq
                  THEN [opts EXCEPT !.includeHealthy = TRUE] ELSE opts
         IN  IF arg.eq /\ arg.name = "min"
             THEN IF ~arg.ok
                  THEN [err |-> TRUE, arg |-> "min", options |-> h, tagPatchManager |-> t]
                  ELSE ParseArgs(args, i + 1, [h EXCEPT !.oldestMinor = arg.n], t)
             ELSE IF arg.eq /\ arg.name = "max"
             THEN IF ~arg.ok
                  THEN [err |-> TRUE, arg |-> "max", options |-> h, tagPatchManager |-> t]
                  ELSE ParseArgs(args, i + 1, [h EXCEPT !.newestMinor = arg.n], t)
             ELSE ParseArgs(args, i + 1, h, t)

\* a call of sendMessage by the handler of delivery d; sent tells whether it returned
\* without error
Post(text, channel, thread, sent) ==
    [text |-> text, channel |-> channel, thread |-> thread, sent |-> sent]

\* the message of the report command: the report or the apology, tagged or not
ReportMsg(opts, tag, failed) ==
    [kind |-> IF failed THEN "Sorry, an error occurred generating the report" ELSE "report",
     options |-> opts, tagged |-> tag]

\* a message without a report in it
TextMsg(kind) == [kind |-> kind]

\* the handler of delivery d leaves by the return statement ret with the status code
Return(d, ret, status) ==
    [locals EXCEPT ![d].pc = "returned", ![d].ret = ret, ![d].status = status]

\* ioutil.ReadAll, json.Unmarshal, url_verification and the test of the request type
Receive(d) ==
    /\ locals[d].pc = "start"
    /\ locals' = IF ~locals[d].req.valid THEN Return(d, "badBody", 500)
                 ELSE IF locals[d].req.Type = "url_verification" THEN Return(d, "challenge", 200)
                 ELSE IF locals[d].req.Type = "event_callback" THEN [locals EXCEPT ![d].pc = "lock"]
                 ELSE Return(d, "end", 200)
    /\ UNCHANGED <<acceptedReleases, allReleases, nightlyGraph, o, now, pc, result>>
    /\ UNCHANGED <<responses, mutex, msgCache, posts>>

\* Lock with the mutex not waited for
LockNoWait(d) ==
    /\ locals[d].pc = "lock"
    /\ mutex' = TRUE
    /\ locals' = [locals EXCEPT ![d].pc = "check"]
    /\ UNCHANGED <<acceptedReleases, allReleases, nightlyGraph, o, now, pc, result>>
    /\ UNCHANGED <<responses, msgCache, posts>>

\* mutex.Lock()
Lock(d) ==
    /\ locals[d].pc = "lock"
    /\ ~mutex
    /\ mutex' = TRUE
    /\ locals' = [locals EXCEPT ![d].pc = "check"]
    /\ UNCHANGED <<acceptedReleases, allReleases, nightlyGraph, o, now, pc, result>>
    /\ UNCHANGED <<responses, msgCache, posts>>

\* _, found := msgCache[req.Event.TS]; a duplicate is answered 200
Check(d) ==
    /\ locals[d].pc = "check"
    /\ locals' = IF locals[d].req.TS \in msgCache
                 THEN [locals EXCEPT ![d].pc = "dupe", ![d].status = 200]
                 ELSE [locals EXCEPT ![d].pc = "insert"]
    /\ UNCHANGED <<acceptedReleases, allReleases, nightlyGraph, o, now, pc, result>>
    /\ UNCHANGED <<responses, mutex, msgCache, posts>>

\* mutex.Unlock() and return, for a duplicate
DupeUnlock(d) ==
    /\ locals[d].pc = "dupe"
    /\ mutex' = FALSE
    /\ locals' = Return(d, "dupe", locals[d].status)
    /\ UNCHANGED <<acceptedReleases, allReleases, nightlyGraph, o, now, pc, result>>
    /\ UNCHANGED <<responses, msgCache, posts>>

\* msgCache[req.Event.TS] = struct{}{}
Insert(d) ==
    /\ locals[d].pc = "insert"
    /\ msgCache' = msgCache \cup {locals[d].req.TS}
    /\ locals' = [locals EXCEPT ![d].pc = "unlock"]
    /\ UNCHANGED <<acceptedReleases, allReleases, nightlyGraph, o, now, pc, result>>
    /\ UNCHANGED <<responses, mutex, posts>>

\* mutex.Unlock(), for an event seen for the first time
Unlock(d) ==
    /\ locals[d].pc = "unlock"
    /\ mutex' = FALSE
    /\ locals' = [locals EXCEPT ![d].pc = "dispatch"]
    /\ UNCHANGED <<acceptedReleases, allReleases, nightlyGraph, o, now, pc, result>>
    /\ UNCHANGED <<responses, msgCache, posts>>

\* case strings.Contains(req.Event.Text, "help")
Help(d) ==
    /\ locals[d].pc = "dispatch"
    /\ Contains(locals[d].req.Text, "help")
    /\ \E sent \in BOOLEAN :
          posts' = [posts EXCEPT ![d] = Append(@, Post(TextMsg("help"), locals[d].req.Channel, 0, sent))]
    /\ locals' = [locals EXCEPT ![d].pc = "thread", ![d].msg = TextMsg("")]
    /\ UNCHANGED <<acceptedReleases, allReleases, nightlyGraph, o, now, pc, result>>
    /\ UNCHANGED <<responses, mutex, msgCache>>

\* Report with the arguments applied to the options of the server, not to a copy
ReportShared(d) ==
    /\ locals[d].pc = "dispatch"
    /\ ~Contains(locals[d].req.Text, "help")
    /\ Contains(locals[d].req.Text, "report")
    /\ LET parsed == ParseArgs(locals[d].req.Text, 1, [o EXCEPT !.includeHealthy = FALSE], FALSE)
       IN  IF parsed.err
           THEN /\ \E sent \in BOOLEAN :
                      posts' = [posts EXCEPT ![d] =
                                   Append(@, Post(TextMsg("Error parsing " \o parsed.arg \o " z-stream version value"),
                                                  locals[d].req.Channel, 0, sent))]
                /\ locals' = Return(d, "parseError", 200)
                /\ o' = parsed.options
           ELSE /\ \E failed \in BOOLEAN :
                      locals' = [locals EXCEPT ![d].pc = "thread", ![d].generated = TRUE,
                                               ![d].msg = ReportMsg(parsed.options, parsed.tagPatchManager, failed)]
                /\ posts' = posts
                /\ o' = parsed.options
    /\ UNCHANGED <<acceptedReleases, allReleases, nightlyGraph, now, pc, result>>
    /\ UNCHANGED <<responses, mutex, msgCache>>

\* case strings.Contains(req.Event.Text, "report"): the arguments, then generateReport
Report(d) ==
    /\ locals[d].pc = "dispatch"
    /\ ~Contains(locals[d].req.Text, "help")
    /\ Contains(locals[d].req.Text, "report")
    /\ LET parsed == ParseArgs(locals[d].req.Text, 1, [o EXCEPT !.includeHealthy = FALSE], FALSE)
       IN  IF parsed.err
           THEN /\ \E sent \in BOOLEAN :
                      posts' = [posts EXCEPT ![d] =
                                   Append(@, Post(TextMsg("Error parsing " \o parsed.arg \o " z-stream version value"),
                                                  locals[d].req.Channel, 0, sent))]
                /\ locals' = Return(d, "parseError", 200)
           ELSE /\ \E failed \in BOOLEAN :
                      locals' = [locals EXCEPT ![d].pc = "thread", ![d].generated = TRUE,
                                               ![d].msg = ReportMsg(parsed.options, parsed.tagPatchManager, failed)]
                /\ posts' = posts
    /\ UNCHANGED <<acceptedReleases, allReleases, nightlyGraph, o, now, pc, result>>
    /\ UNCHANGED <<responses, mutex, msgCache>>

\* default
Default(d) ==
    /\ locals[d].pc = "dispatch"
    /\ ~Contains(locals[d].req.Text, "help")
    /\ ~Contains(locals[d].req.Text, "report")
    /\ locals' = [locals EXCEPT ![d].pc = "thread", ![d].msg = TextMsg("Sorry, I couldn't process that request")]
    /\ UNCHANGED <<acceptedReleases, allReleases, nightlyGraph, o, now, pc, result>>
    /\ UNCHANGED <<responses, mutex, msgCache, posts>>

\* Thread with the event taken out of msgCache when the post fails
ThreadForget(d) ==
    /\ locals[d].pc = "thread"
    /\ \E sent \in BOOLEAN :
          /\ posts' = [posts EXCEPT ![d] =
                          Append(@, Post(TextMsg("Latest payload stream health report thread"),
                                         locals[d].req.Channel, 0, sent))]
          /\ locals' = IF sent
                       THEN [locals EXCEPT ![d].pc = "reply", ![d].ts = Len(posts[d]) + 1]
                       ELSE Return(d, "threadError", 200)
          /\ msgCache' = IF sent THEN msgCache ELSE msgCache \ {locals[d].req.TS}
    /\ UNCHANGED <<acceptedReleases, allReleases, nightlyGraph, o, now, pc, result>>
    /\ UNCHANGED <<responses, mutex>>

\* ts, err := sendMessage("Latest payload stream health report thread", channel, "")
Thread(d) ==
    /\ locals[d].pc = "thread"
    /\ \E sent \in BOOLEAN :
          /\ posts' = [posts EXCEPT ![d] =
                          Append(@, Post(TextMsg("Latest payload stream health report thread"),
                                         locals[d].req.Channel, 0, sent))]
          /\ locals' = IF sent
                       THEN [locals EXCEPT ![d].pc = "reply", ![d].ts = Len(posts[d]) + 1]
                       ELSE Return(d, "threadError", 200)
    /\ UNCHANGED <<acceptedReleases, allReleases, nightlyGraph, o, now, pc, result>>
    /\ UNCHANGED <<responses, mutex, msgCache>>

\* _, err = sendMessage(msg, req.Event.Channel, ts) and the status code
Reply(d) ==
    /\ locals[d].pc = "reply"
    /\ \E sent \in BOOLEAN :
          /\ posts' = [posts EXCEPT ![d] =
                          Append(@, Post(locals[d].msg, locals[d].req.Channel, locals[d].ts, sent))]
          /\ locals' = Return(d, "end", IF sent THEN 200 ELSE 500)
    /\ UNCHANGED <<acceptedReleases, allReleases, nightlyGraph, o, now, pc, result>>
    /\ UNCHANGED <<responses, mutex, msgCache>>

\* the options the server was started with
ServerOptions ==
    [oldestMinor : {8}, newestMinor : {MaxMinor}, includeHealthy : BOOLEAN,
     acceptedStalenessLimit : {1}, builtStalenessLimit : {MaxTs}, upgradeStalenessLimit : {MaxTs}]

\* a handler that has read nothing yet
Started(req) ==
    [pc |-> "start", req |-> req, status |-> 0, ret |-> "", msg |-> TextMsg(""), ts |-> 0,
     generated |-> FALSE]

\* the server with one handler per delivery, their requests drawn from deliveries
InitHandlers(deliveries) ==
    /\ acceptedReleases = EmptyMap
    /\ allReleases = EmptyMap
    /\ nightlyGraph = EmptyMap
    /\ o \in ServerOptions
    /\ now = MaxTs
    /\ pc = "serve"
    /\ result = NoResult
    /\ responses = NoResult
    /\ mutex = FALSE
    /\ msgCache = {}
    /\ posts = [d \in Deliveries |-> <<>>]
    /\ \E reqs \in deliveries : locals = [d \in Deliveries |-> Started(reqs[d])]

\* a webhook delivery: body, type, event identifier, text and channel
Request(valid, type, ts, text, channel) ==
    [valid |-> valid, Type |-> type, TS |-> ts, Text |-> text, Channel |-> channel]

\* concurrent deliveries of a few events with short texts
ServerRequests ==
    {Request(TRUE, "event_callback", ts, <<PlainWord(w)>>, "channel") :
         ts \in 1..MaxEvents, w \in {"help", "report", "hello"}}
        \cup {Request(TRUE, "url_verification", 0, <<>>, ""), Request(FALSE, "", 0, <<>>, "")}

InitServer == InitHandlers([Deliveries -> ServerRequests])

NextServer ==
    \E d \in Deliveries :
        \/ Receive(d)
        \/ Lock(d)
        \/ Check(d)
        \/ DupeUnlock(d)
        \/ Insert(d)
        \/ Unlock(d)
        \/ Help(d)
        \/ Report(d)
        \/ Default(d)
        \/ Thread(d)
        \/ Reply(d)

SpecServer == InitServer /\ [][NextServer]_vars

\* the arguments of a command
Words ==
    {PlainWord(w) : w \in {"tag", "healthy"}}
        \cup {ArgWord(name, TRUE, 9) : name \in {"min", "max"}}
        \cup {ArgWord(name, FALSE, 0) : name \in {"min", "max", "other"}}

\* "report" and at most MaxWords arguments, "help", "help report" and a text that is
\* no command
Texts ==
    {<<PlainWord("report")>> \o args : args \in SeqsUpTo(Words, MaxWords)}
        \cup {<<PlainWord("help")>>, <<PlainWord("help"), PlainWord("report")>>,
              <<PlainWord("hello")>>}

\* one event from one of two channels
CommandRequests ==
    {Request(TRUE, "event_callback", 1, text, channel) :
         text \in Texts, channel \in {"channel", "other channel"}}

\* what the other deliveries carry: a url_verification request, the same event again or
\* a report command of its own
OtherRequests ==
    {Request(TRUE, "url_verification", 0, <<>>, ""),
     Request(TRUE, "event_callback", 1, <<PlainWord("report")>>, "channel"),
     Request(TRUE, "event_callback", 2, <<PlainWord("report"), ArgWord("max", TRUE, 9)>>,
             "channel")}

\* the first delivery carries the command
InitCommand ==
    InitHandlers({[d \in Deliveries |-> IF d = 1 THEN r ELSE other] :
                     r \in CommandRequests, other \in OtherRequests})

SpecCommand == InitCommand /\ [][NextServer]_vars

----------------------------------------------------------------------------
(* The fetches: getReleaseStream and getUpgradeGraph *)

MaxNodes == 2

MaxEdges == 2

\* what an endpoint answers: http.Get fails, the status is not 200, the body is no JSON
\* of the expected shape, or the body decodes to body
ResponseKinds == {"error", "status", "json", "ok"}

Response(kind, body) == [kind |-> kind, body |-> body]

\* getReleaseStream(url): [value, err]
getReleaseStream(response) ==
    IF response.kind = "error"
    THEN [value |-> EmptyMap, err |-> "error fetching releases"]
    ELSE IF response.kind = "status"
    THEN [value |-> EmptyMap, err |-> "non-OK http response code"]
    ELSE IF response.kind = "json"
    THEN [value |-> EmptyMap, err |-> "error decoding releases"]
    ELSE [value |-> response.body, err |-> ""]

\* graph.Nodes[index] is in range; indices count from 0
InRange(nodes, index) == 0 <= index /\ index < Len(nodes)

\* the loop over graph.Edges with the list of a target replaced by its latest source
RECURSIVE GraphLoopLatest(_, _, _, _)
GraphLoopLatest(nodes, edges, i, graphMap) ==
    IF i > Len(edges) THEN [graphMap |-> graphMap, panic |-> FALSE]
    ELSE LET from == edges[i][1]
             to == edges[i][2]
         IN  IF ~InRange(nodes, to) \/ ~InRange(nodes, from)
             THEN [graphMap |-> graphMap, panic |-> TRUE]
             ELSE GraphLoopLatest(nodes, edges, i + 1,
                                  MapSet(graphMap, nodes[to + 1].Version,
                                         <<nodes[from + 1].Version>>))

\* the loop over graph.Edges: [graphMap, panic], panic for an index out of range
RECURSIVE GraphLoop(_, _, _, _)
GraphLoop(nodes, edges, i, graphMap) ==
    IF i > Len(edges) THEN [graphMap |-> graphMap, panic |-> FALSE]
    ELSE LET from == edges[i][1]
             to == edges[i][2]
         IN  IF ~InRange(nodes, to) \/ ~InRange(nodes, from)
             THEN [graphMap |-> graphMap, panic |-> TRUE]
             ELSE GraphLoop(nodes, edges, i + 1,
                            MapSet(graphMap, nodes[to + 1].Version,
                                   MapGet(graphMap, nodes[to + 1].Version)
                                       \o <<nodes[from + 1].Version>>))

\* getUpgradeGraph(apiurl, channel): [value, err, panic]
getUpgradeGraph(response) ==
    IF response.kind = "error"
    THEN [value |-> EmptyMap, err |-> "error fetching upgrade graph", panic |-> FALSE]
    ELSE IF response.kind = "status"
    THEN [value |-> EmptyMap, err |-> "non-OK http response code fetching upgrade graph",
          panic |-> FALSE]
    ELSE IF response.kind = "json"
    THEN [value |-> EmptyMap, err |-> "error decoding upgrade graph", panic |-> FALSE]
    ELSE LET built == GraphLoop(response.body.Nodes, response.body.Edges, 1, EmptyMap)
         IN  [value |-> built.graphMap, err |-> "", panic |-> built.panic]

\* the version labels of the nodes of a graph document
Versions == [minor : {MaxMinor - 1, MaxMinor}]

\* the graph documents: at most MaxNodes nodes and MaxEdges edges, an edge index may be
\* one past the last node
GraphDocuments ==
    [Nodes : SeqsUpTo([Version : Versions], MaxNodes),
     Edges : SeqsUpTo((0..MaxNodes) \X (0..MaxNodes), MaxEdges)]

\* the answers of the graph endpoint
GraphResponses ==
    {Response("ok", doc) : doc \in GraphDocuments}
        \cup {Response(kind, <<>>) : kind \in ResponseKinds \ {"ok"}}

InitGraph ==
    /\ acceptedReleases = EmptyMap
    /\ allReleases = EmptyMap
    /\ nightlyGraph = EmptyMap
    /\ o = [oldestMinor |-> 9, newestMinor |-> MaxMinor, includeHealthy |-> FALSE,
            acceptedStalenessLimit |-> 1, upgradeStalenessLimit |-> 1,
            builtStalenessLimit |-> 1]
    /\ now = MaxTs
    /\ pc = "call"
    /\ result = NoResult
    /\ \E response \in GraphResponses : responses = [graph |-> response]
    /\ locals = NoResult
    /\ mutex = FALSE
    /\ msgCache = {}
    /\ posts = <<>>

CallGetUpgradeGraph ==
    /\ pc = "call"
    /\ result' = getUpgradeGraph(responses.graph)
    /\ pc' = "done"
    /\ UNCHANGED <<acceptedReleases, allReleases, nightlyGraph, o, now, serverVars>>

NextGraph == CallGetUpgradeGraph

SpecGraph == InitGraph /\ [][NextGraph]_vars

----------------------------------------------------------------------------
(* generateReport with its three fetches *)

MaxFetchSize == 2

\* a graph document whose adjacency map is g: per key a node for the key and one for
\* each of its sources, and the edges from them to it
RECURSIVE DocumentOf(_, _, _)
DocumentOf(g, keys, doc) ==
    IF keys = {} THEN doc
    ELSE LET k == CHOOSE x \in keys : TRUE
             target == Len(doc.Nodes)
             nodes == <<[Version |-> k]>> \o [j \in 1..Len(g[k]) |-> [Version |-> g[k][j]]]
             edges == [j \in 1..Len(g[k]) |-> <<target + j, target>>]
         IN  DocumentOf(g, keys \ {k}, [Nodes |-> doc.Nodes \o nodes, Edges |-> doc.Edges \o edges])

\* the text returned with an error
EmptyOutput == [sections |-> <<>>, ignored |-> <<>>]

\* what the fetches of generateReport leave: the endpoints asked, the values decoded
\* and the first error
Fetched(fetched, accepted, all, graph, err, panic) ==
    [fetched |-> fetched, accepted |-> accepted, all |-> all, graph |-> graph, err |-> err,
     panic |-> panic]

\* the fetches with the errors passed over: every endpoint is asked
fetchReleasesAnyway(answers) ==
    LET accepted == getReleaseStream(answers.accepted)
        all == getReleaseStream(answers.all)
        graph == getUpgradeGraph(answers.graph)
    IN  Fetched(<<"accepted", "all", "graph">>, accepted.value, all.value, graph.value, "",
                graph.panic)

\* the three fetches at the head of generateReport, each returning at its error
fetchReleases(answers) ==
    LET accepted == getReleaseStream(answers.accepted)
        all == getReleaseStream(answers.all)
        graph == getUpgradeGraph(answers.graph)
    IN  IF accepted.err # ""
        THEN Fetched(<<"accepted">>, EmptyMap, EmptyMap, EmptyMap, accepted.err, FALSE)
        ELSE IF all.err # ""
        THEN Fetched(<<"accepted", "all">>, accepted.value, EmptyMap, EmptyMap, all.err, FALSE)
        ELSE Fetched(<<"accepted", "all", "graph">>, accepted.value, all.value, graph.value,
                     graph.err, graph.panic)

\* the windows, limits and includeHealthy of the reports that fetch
FetchOptions ==
    [oldestMinor : {MaxMinor - 1}, newestMinor : {MaxMinor}, includeHealthy : BOOLEAN,
     acceptedStalenessLimit : {1}, builtStalenessLimit : {MaxTs + 1},
     upgradeStalenessLimit : {1}]

InitFetch ==
    \* what the endpoints hold, MaxFetchSize streams, payloads and edges in all, and how
    \* each of them answers
    /\ \E A \in SUBSET ReportNames, B \in SUBSET ReportNames :
          /\ Cardinality(A) + Cardinality(B) <= MaxFetchSize
          /\ \E accepted \in MapsOver(A, [n \in A |-> ReportPayloads(n)],
                                      MaxFetchSize - Cardinality(A) - Cardinality(B)) :
                \E all \in MapsOver(B, [n \in B |-> ReportPayloads(n)],
                                    MaxFetchSize - Cardinality(A) - Cardinality(B)
                                      - TotalLen(accepted, A)) :
                   \E g \in MapsOver(PayloadsIn(all), [p \in PayloadsIn(all) |-> SourcesOf(p)],
                                     MaxFetchSize - Cardinality(A) - Cardinality(B)
                                       - TotalLen(accepted, A) - TotalLen(all, B)) :
                      \E kinds \in [{"accepted", "all", "graph"} -> ResponseKinds] :
                         responses =
                             [accepted |-> Response(kinds["accepted"], accepted),
                              all |-> Response(kinds["all"], all),
                              graph |-> Response(kinds["graph"],
                                                 DocumentOf(DropEmpty(g), DOMAIN DropEmpty(g),
                                                            [Nodes |-> <<>>, Edges |-> <<>>]))]
    /\ acceptedReleases = EmptyMap
    /\ allReleases = EmptyMap
    /\ nightlyGraph = EmptyMap
    /\ o \in FetchOptions
    /\ now = MaxTs
    /\ pc = "call"
    /\ result = NoResult
    /\ locals = [fetched |-> <<>>]
    /\ mutex = FALSE
    /\ msgCache = {}
    /\ posts = <<>>

\* generateReport, fetches included
FetchAndGenerateReport ==
    /\ pc = "call"
    /\ LET f == fetchReleases(responses)
       IN  /\ locals' = [fetched |-> f.fetched]
           /\ acceptedReleases' = f.accepted
           /\ allReleases' = f.all
           /\ nightlyGraph' = f.graph
           /\ IF f.err # "" \/ f.panic
              THEN result' = [output |-> EmptyOutput, err |-> f.err, panic |-> f.panic]
              ELSE \E order \in Orders(DOMAIN f.accepted \cup DOMAIN f.all) :
                      LET r == reportFindings(f.accepted, f.all, f.graph, o, now, order)
                      IN  \E reportKeys \in Orders(DOMAIN r.report) :
                             result' = [output |-> reportText(r, o, reportKeys).output,
                                        err |-> "", panic |-> FALSE]
    /\ pc' = "done"
    /\ UNCHANGED <<o, now, responses, mutex, msgCache, posts>>

NextFetch == FetchAndGenerateReport

SpecFetch == InitFetch /\ [][NextFetch]_vars

----------------------------------------------------------------------------
(* checkUpgrades step by step: the loops over one release *)

MaxScanSize == 5

\* the locals of checkUpgrades inside the loop over releases; i and j are the positions
\* of the loops over payloads and over graph[payload]
ScanLocals(release, i, j, foundMinor, foundPatch) ==
    [release |-> release, i |-> i, j |-> j, foundMinor |-> foundMinor, foundPatch |-> foundPatch]

InitScan ==
    \* one stream with its payloads and the edges into them, MaxScanSize payloads and
    \* edges in all
    /\ \E n \in UpgradeNames :
          \E q \in SeqsUpTo(UpgradePayloads(n), MaxScanSize) :
             \E g \in MapsOver(Range(q), [p \in Range(q) |-> SourcesOf(p)], MaxScanSize - Len(q)) :
                /\ allReleases = MapSet(EmptyMap, n, q)
                /\ nightlyGraph = DropEmpty(g)
    /\ acceptedReleases = EmptyMap
    /\ \E limit \in Limits, healthy \in BOOLEAN :
          o = [oldestMinor |-> 9, newestMinor |-> MaxMinor,
               acceptedStalenessLimit |-> limit, builtStalenessLimit |-> limit,
               upgradeStalenessLimit |-> limit, includeHealthy |-> healthy]
    /\ now = MaxTs
    /\ pc = "call"
    /\ result = NoResult
    /\ NoServer

\* for release, payloads := range releases, up to var foundMinor, foundPatch
RangeReleases ==
    /\ pc = "call"
    /\ \E release \in DOMAIN allReleases :
          IF \/ ~zReleaseRegex(release)
             \/ zReleaseMinor(release) < o.oldestMinor
             \/ zReleaseMinor(release) > o.newestMinor
          THEN /\ result' = EmptyMap
               /\ pc' = "done"
               /\ UNCHANGED locals
          ELSE /\ locals' = ScanLocals(release, 1, 0, Nil, Nil)
               /\ pc' = "payload"
               /\ UNCHANGED result
    /\ UNCHANGED <<acceptedReleases, allReleases, nightlyGraph, o, now>>
    /\ UNCHANGED <<responses, mutex, msgCache, posts>>

\* the payload the loop over payloads is at, and its age
ScanPayload == allReleases[locals.release][locals.i]

ScanAge == Sub(now, getPayloadTimestamp(ScanPayload).ts)

\* for _, payload := range payloads, up to the loop over graph[payload]
RangePayloads ==
    /\ pc = "payload"
    /\ IF locals.i > Len(allReleases[locals.release])
       THEN /\ pc' = "findings"
            /\ UNCHANGED locals
       ELSE IF \/ ~getPayloadTimestamp(ScanPayload).ok
               \/ ScanAge > o.upgradeStalenessLimit
               \/ ~extractMinorRegex(ScanPayload)
       THEN /\ locals' = [locals EXCEPT !.i = locals.i + 1]
            /\ pc' = "payload"
       ELSE /\ locals' = [locals EXCEPT !.j = 1]
            /\ pc' = "source"
    /\ UNCHANGED <<acceptedReleases, allReleases, nightlyGraph, o, now, result>>
    /\ UNCHANGED <<responses, mutex, msgCache, posts>>

\* for _, from := range graph[payload]: one iteration, or the end of the loop
RangeSources ==
    /\ pc = "source"
    /\ LET sources == MapGet(nightlyGraph, ScanPayload)
           toVersion == extractMinor(ScanPayload)
       IN  IF locals.j > Len(sources)
           THEN /\ locals' = [locals EXCEPT !.i = locals.i + 1, !.j = 0]
                /\ pc' = "payload"
           ELSE LET from == sources[locals.j]
                IN  IF ~extractMinorRegex(from)
                    THEN /\ locals' = [locals EXCEPT !.j = locals.j + 1]
                         /\ pc' = "source"
                    ELSE LET fromVersion == extractMinor(from)
                             patch == IF toVersion = fromVersion
                                      THEN Found(from, ScanAge) ELSE locals.foundPatch
                             minor == IF toVersion = fromVersion + 1
                                      THEN Found(from, ScanAge) ELSE locals.foundMinor
                         IN  IF ~minor.nil /\ ~patch.nil
                             THEN \* break
                                  /\ locals' = ScanLocals(locals.release, locals.i + 1, 0,
                                                          minor, patch)
                                  /\ pc' = "payload"
                             ELSE /\ locals' = ScanLocals(locals.release, locals.i,
                                                          locals.j + 1, minor, patch)
                                  /\ pc' = "source"
    /\ UNCHANGED <<acceptedReleases, allReleases, nightlyGraph, o, now, result>>
    /\ UNCHANGED <<responses, mutex, msgCache, posts>>

\* the findings of the release, and return report
AppendFindings ==
    /\ pc = "findings"
    /\ result' = AppendAll(EmptyMap, locals.release,
                           UpgradeFindings([foundMinor |-> locals.foundMinor,
                                            foundPatch |-> locals.foundPatch],
                                           o.includeHealthy))
    /\ pc' = "done"
    /\ UNCHANGED <<acceptedReleases, allReleases, nightlyGraph, o, now, locals>>
    /\ UNCHANGED <<responses, mutex, msgCache, posts>>

NextScan == RangeReleases \/ RangePayloads \/ RangeSources \/ AppendFindings

SpecScan == InitScan /\ [][NextScan]_vars

----------------------------------------------------------------------------
(* What the claims speak about, stated on the inputs *)

\* the stream is a z-stream inside the window oldestMinor..newestMinor, bounds included
InWindow(stream) ==
    /\ stream.kind \in {"ci", "nightly"}
    /\ o.oldestMinor <= stream.minor
    /\ stream.minor <= o.newestMinor

\* the positions of the payloads whose date can be read
Parsable(payloads) == {i \in 1..Len(payloads) : payloads[i].ts # NoTs}

\* some payload with a readable date is younger than threshold
HasFresh(payloads, threshold) ==
    \E i \in Parsable(payloads) : now - payloads[i].ts < threshold

\* the newest readable date
Newest(payloads) ==
    CHOOSE t \in {payloads[i].ts : i \in Parsable(payloads)} :
        \A i \in Parsable(payloads) : payloads[i].ts <= t

----------------------------------------------------------------------------
(* Claims on getEmptyAndStaleStreams, under SpecClassify *)

\* C1: the empty set and the stale map of one call are disjoint; an analysed stream
\* without payloads is in the empty set and no stream without payloads is in the stale
\* map; a stream of the empty set has no payloads.
C1_EmptyStaleDisjoint ==
    pc = "done" =>
        /\ result.empty \cap DOMAIN result.stale = {}
        /\ \A s \in DOMAIN allReleases :
              allReleases[s] = <<>> =>
                  /\ s \notin DOMAIN result.stale
                  /\ InWindow(s) => s \in result.empty
        /\ \A s \in result.empty : s \in DOMAIN allReleases /\ allReleases[s] = <<>>

\* one call that returns a stream without payloads and a stale stream
C1_Witness ==
    /\ pc = "done"
    /\ result.empty # {}
    /\ DOMAIN result.stale # {}

\* C2: an analysed stream with payloads is in the stale map exactly when no payload with
\* a readable date is younger than the threshold, its age is then the time since the
\* newest readable date, and a stream with a fresh payload is in neither result.
C2_StaleIffNoFresh ==
    pc = "done" =>
        \A s \in DOMAIN allReleases :
            (InWindow(s) /\ allReleases[s] # <<>>) =>
                LET payloads == allReleases[s]
                    fresh == HasFresh(payloads, o.acceptedStalenessLimit)
                IN  /\ s \in DOMAIN result.stale <=> ~fresh
                    /\ (s \in DOMAIN result.stale /\ Parsable(payloads) # {})
                          => result.stale[s] = now - Newest(payloads)
                    /\ fresh => (s \notin result.empty /\ s \notin DOMAIN result.stale)

\* a stale stream whose newest payload comes first, and whose age is counted from it
C2_Witness ==
    /\ pc = "done"
    /\ \E s \in DOMAIN result.stale :
          /\ Len(allReleases[s]) = 2
          /\ Parsable(allReleases[s]) = {1, 2}
          /\ allReleases[s][1].ts > allReleases[s][2].ts
          /\ result.stale[s] = now - allReleases[s][1].ts

\* C7: an analysed stream whose payloads all lack a readable date is in neither the
\* empty set nor the stale map.
C7_UnparsableDropped ==
    pc = "done" =>
        \A s \in DOMAIN allReleases :
            (InWindow(s) /\ allReleases[s] # <<>> /\ Parsable(allReleases[s]) = {}) =>
                (s \notin result.empty /\ s \notin DOMAIN result.stale)

----------------------------------------------------------------------------
(* Claims on checkUpgrades, under SpecUpgrades *)

\* the positions of the payloads with a readable date no older than limit
WithinThreshold(payloads, limit) ==
    {i \in Parsable(payloads) : now - payloads[i].ts <= limit}

\* those of them whose minor version can be read
Recent(payloads, limit) ==
    {i \in WithinThreshold(payloads, limit) : payloads[i].minor # NoMinor}

\* the incoming adjacency list of a payload
SourcesOfPayload(payload) ==
    IF payload \in DOMAIN nightlyGraph THEN nightlyGraph[payload] ELSE <<>>

\* some recent payload has a source whose minor version is d below its own
Evidence(payloads, limit, d) ==
    \E i \in Recent(payloads, limit) :
        \E j \in 1..Len(SourcesOfPayload(payloads[i])) :
            LET from == SourcesOfPayload(payloads[i])[j]
            IN  from.minor # NoMinor /\ from.minor + d = payloads[i].minor

\* the findings of stream s with this text
Findings(s, text) ==
    IF s \in DOMAIN result
    THEN {k \in 1..Len(result[s]) : result[s][k].text = text}
    ELSE {}

\* C4: for an in-window stream there is no "Does not have a recent valid patch level
\* upgrade" finding exactly when some payload within the threshold, with a readable
\* minor version, has a source of the same minor version.
C4_PatchFoundIffSameMinorSource ==
    pc = "done" =>
        \A s \in DOMAIN allReleases :
            InWindow(s) =>
                (Findings(s, NoPatchText) = {}
                    <=> Evidence(allReleases[s], o.upgradeStalenessLimit, 0))

\* a patch level upgrade found on a payload exactly as old as the threshold, after a
\* payload that is too old
C4_Witness ==
    /\ pc = "done"
    /\ \E s \in DOMAIN allReleases :
          /\ InWindow(s)
          /\ Len(allReleases[s]) >= 2
          /\ allReleases[s][1].ts # NoTs
          /\ now - allReleases[s][1].ts > o.upgradeStalenessLimit
          /\ \E i \in Recent(allReleases[s], o.upgradeStalenessLimit) :
                now - allReleases[s][i].ts = o.upgradeStalenessLimit
          /\ Evidence(allReleases[s], o.upgradeStalenessLimit, 0)
          /\ Findings(s, NoPatchText) = {}

\* a source that is neither of the payload's minor version nor of the one below
Far(from, payload) ==
    /\ from.minor # NoMinor
    /\ from.minor <= payload.minor - 2 \/ from.minor > payload.minor

\* the recent payloads have sources, and all of them are far
OnlyFarSources(payloads, limit) ==
    /\ \E i \in Recent(payloads, limit) : SourcesOfPayload(payloads[i]) # <<>>
    /\ \A i \in Recent(payloads, limit) :
          \A j \in 1..Len(SourcesOfPayload(payloads[i])) :
              Far(SourcesOfPayload(payloads[i])[j], payloads[i])

\* C5: for an in-window stream there is no "Does not have a recent valid minor level
\* upgrade" finding exactly when some recent payload has a source exactly one minor
\* version below it; when the recent payloads only have sources two or more below or
\* above, the stream gets both negative findings.
C5_MinorFoundIffOneBelow ==
    pc = "done" =>
        \A s \in DOMAIN allReleases :
            InWindow(s) =>
                /\ Findings(s, NoMinorText) = {}
                      <=> Evidence(allReleases[s], o.upgradeStalenessLimit, 1)
                /\ OnlyFarSources(allReleases[s], o.upgradeStalenessLimit)
                      => /\ Findings(s, NoPatchText) # {}
                         /\ Findings(s, NoMinorText) # {}

\* a recent payload with a source two below and a source above, and both negative findings
C5_Witness ==
    /\ pc = "done"
    /\ \E s \in DOMAIN allReleases :
          /\ InWindow(s)
          /\ OnlyFarSources(allReleases[s], o.upgradeStalenessLimit)
          /\ \E i \in Recent(allReleases[s], o.upgradeStalenessLimit) :
                LET sources == SourcesOfPayload(allReleases[s][i])
                IN  /\ \E j \in 1..Len(sources) :
                          sources[j].minor = allReleases[s][i].minor - 2
                    /\ \E j \in 1..Len(sources) :
                          sources[j].minor > allReleases[s][i].minor
          /\ Findings(s, NoPatchText) # {}
          /\ Findings(s, NoMinorText) # {}

\* C6: an in-window stream without a payload within the upgrade staleness threshold
\* gets no finding from checkUpgrades.
C6_NoRecentPayloadSkipped ==
    pc = "done" =>
        \A s \in DOMAIN allReleases :
            (InWindow(s) /\ WithinThreshold(allReleases[s], o.upgradeStalenessLimit) = {})
                => s \notin DOMAIN result

\* C8: the findings of a stream hold at most one patch level and at most one minor
\* level entry, a positive entry only when includeHealthy is set, and with
\* includeHealthy unset a stream with both upgrades found has no entry in the result.
C8_AtMostOnePerCategory ==
    pc = "done" =>
        \A s \in DOMAIN allReleases :
            /\ Cardinality(Findings(s, NoPatchText) \cup Findings(s, HasPatchText)) <= 1
            /\ Cardinality(Findings(s, NoMinorText) \cup Findings(s, HasMinorText)) <= 1
            /\ ~o.includeHealthy =>
                  Findings(s, HasPatchText) \cup Findings(s, HasMinorText) = {}
            /\ (/\ InWindow(s)
                /\ ~o.includeHealthy
                /\ Evidence(allReleases[s], o.upgradeStalenessLimit, 0)
                /\ Evidence(allReleases[s], o.upgradeStalenessLimit, 1))
                  => s \notin DOMAIN result

\* both upgrades found with includeHealthy unset, on two payloads
C8_Witness ==
    /\ pc = "done"
    /\ ~o.includeHealthy
    /\ \E s \in DOMAIN allReleases :
          /\ InWindow(s)
          /\ Cardinality(Recent(allReleases[s], o.upgradeStalenessLimit)) >= 2
          /\ Evidence(allReleases[s], o.upgradeStalenessLimit, 0)
          /\ Evidence(allReleases[s], o.upgradeStalenessLimit, 1)
          /\ s \notin DOMAIN result

----------------------------------------------------------------------------
(* Claims on generateReport, under Spec *)

\* the streams that have a section in the text
Reported ==
    {result.output.sections[i].stream : i \in 1..Len(result.output.sections)}

\* the streams named by a result of the classifier, by checkUpgrades or by the text
Named ==
    result.acceptedEmpty \cup DOMAIN result.acceptedStale \cup result.allEmpty
        \cup DOMAIN result.allStale \cup DOMAIN result.allVeryStale
        \cup DOMAIN result.upgrades \cup Reported

C9_StrictlyDescending ==
    pc = "done" =>
        \A i, j \in 1..Len(result.output.sections) :
            i < j => result.output.sections[i].stream.minor
                        > result.output.sections[j].stream.minor

\* C9: the sections are in descending order of minor version, the sections of one
\* minor version next to each other: of two sections, the earlier never has a lower
\* minor version than the later.
C9_Descending ==
    pc = "done" =>
        \A i, j \in 1..Len(result.output.sections) :
            i < j => result.output.sections[i].stream.minor
                        >= result.output.sections[j].stream.minor

\* a report with three sections, two of them of one minor version
C9_Witness ==
    /\ pc = "done"
    /\ Len(result.output.sections) = 3
    /\ result.output.sections[1].stream.minor > result.output.sections[3].stream.minor
    /\ \E i \in 1..2 : result.output.sections[i].stream.minor
                            = result.output.sections[i + 1].stream.minor

\* one order of the streams, for all the ranges
FirstOrder == CHOOSE order \in Orders(Streams) : TRUE

\* C10: whatever the order in which the maps are ranged over, the text is the one
\* produced with the order FirstOrder: sections, their order, and the findings of each.
C10_Deterministic ==
    pc = "done" =>
        result.output = generateReport(acceptedReleases, allReleases, nightlyGraph, o, now,
                                       FirstOrder, Induced(FirstOrder, Reported)).output

\* a report whose sections can be collected in more than one order, two of them of one
\* minor version, and one with several findings
C10_Witness ==
    /\ pc = "done"
    /\ \E i, j \in 1..Len(result.output.sections) :
          /\ i < j
          /\ result.output.sections[i].stream.minor = result.output.sections[j].stream.minor
          /\ Len(result.output.sections[i].findings) >= 2

----------------------------------------------------------------------------
(* Claims on the webhook handler, under SpecServer and SpecCommand *)

\* the handler of delivery d is between mutex.Lock() and mutex.Unlock()
Holding(d) == locals[d].pc \in {"check", "dupe", "insert", "unlock"}

\* the handler of delivery d has put its event in msgCache and goes on, or went on, to
\* the command
Passed(d) ==
    /\ locals[d].req.valid
    /\ locals[d].req.Type = "event_callback"
    /\ \/ locals[d].pc \in {"unlock", "dispatch", "thread", "reply"}
       \/ locals[d].pc = "returned" /\ locals[d].ret # "dupe"

\* C11: of the deliveries of one event at most one passes the check-and-insert on
\* msgCache; a delivery turned away as a duplicate is answered 200, generates no
\* report and posts nothing, and another delivery of its event has passed; the mutex
\* is held by one handler at most, and by none that has left either path.
C11_OneDeliveryPerEvent ==
    /\ \A d1, d2 \in Deliveries :
          (d1 # d2 /\ Passed(d1) /\ Passed(d2)) => locals[d1].req.TS # locals[d2].req.TS
    /\ \A d \in Deliveries :
          (locals[d].pc = "returned" /\ locals[d].ret = "dupe") =>
              /\ locals[d].status = 200
              /\ ~locals[d].generated
              /\ posts[d] = <<>>
              /\ \E d2 \in Deliveries \ {d} :
                    Passed(d2) /\ locals[d2].req.TS = locals[d].req.TS
    /\ \A d \in Deliveries : Passed(d) => locals[d].req.TS \in msgCache
    /\ mutex <=> \E d \in Deliveries : Holding(d)
    /\ Cardinality({d \in Deliveries : Holding(d)}) <= 1

\* two deliveries of one event have returned: one generated a report and posted it, the
\* other was turned away, and the mutex is free
C11_Witness ==
    /\ ~mutex
    /\ \E d1, d2 \in Deliveries :
          /\ locals[d1].req.TS = locals[d2].req.TS
          /\ locals[d1].pc = "returned" /\ locals[d1].ret = "dupe"
          /\ locals[d2].pc = "returned" /\ locals[d2].ret = "end"
          /\ locals[d2].generated
          /\ Len(posts[d2]) = 2

\* the text is dispatched to the report command
IsReport(text) == ~Contains(text, "help") /\ Contains(text, "report")

\* the text has a min= or max= argument whose value is no integer
BadArgument(text) ==
    \E i \in 1..Len(text) : text[i].eq /\ text[i].name \in {"min", "max"} /\ ~text[i].ok

\* C13: a handler that processes a report command with a min= or max= argument whose
\* value is no integer never calls generateReport, calls sendMessage for nothing but the
\* error message, to the channel of the request and outside any thread, and returns
\* right after it.
C13_BadArgumentNoReport ==
    \A d \in Deliveries :
        (Passed(d) /\ IsReport(locals[d].req.Text) /\ BadArgument(locals[d].req.Text)) =>
            /\ ~locals[d].generated
            /\ locals[d].pc \notin {"thread", "reply"}
            /\ \A k \in 1..Len(posts[d]) :
                  /\ posts[d][k].text.kind \in {"Error parsing min z-stream version value",
                                                "Error parsing max z-stream version value"}
                  /\ posts[d][k].channel = locals[d].req.Channel
                  /\ posts[d][k].thread = 0
            /\ locals[d].pc = "returned" =>
                  (locals[d].ret = "parseError" /\ Len(posts[d]) = 1)

\* "report healthy max=x" from the other channel: the error message is posted there
C13_Witness ==
    \E d \in Deliveries :
        /\ locals[d].pc = "returned"
        /\ locals[d].ret = "parseError"
        /\ Len(locals[d].req.Text) = 3
        /\ locals[d].req.Text[2] = PlainWord("healthy")
        /\ locals[d].req.Text[3] = ArgWord("max", FALSE, 0)
        /\ locals[d].req.Channel = "other channel"
        /\ posts[d] = <<Post(TextMsg("Error parsing max z-stream version value"),
                             "other channel", 0, TRUE)>>

----------------------------------------------------------------------------
(* Claims on getUpgradeGraph, under SpecGraph *)

\* the graph document that was fetched
Document == responses.graph.body

\* the version label of node index of the document
Label(index) == Document.Nodes[index + 1].Version

\* the edges into the nodes labelled version, in the order of the document
EdgesInto(version) == SelectSeq(Document.Edges, LAMBDA e : Label(e[2]) = version)

\* getUpgradeGraph returned a map: no error and no index out of range
Built == pc = "done" /\ result.err = "" /\ ~result.panic

\* C18: the map returned for a graph document holds exactly its edges: the keys are the
\* labels of the targets, and the list of a key is the labels of the sources of the
\* edges into it, one entry per edge and in the order of the edges; so the entries are
\* as many as the edges.
C18_AdjacencyIsEdges ==
    Built =>
        /\ DOMAIN result.value = {Label(Document.Edges[i][2]) : i \in 1..Len(Document.Edges)}
        /\ \A version \in DOMAIN result.value :
              /\ Len(result.value[version]) = Len(EdgesInto(version))
              /\ \A j \in 1..Len(EdgesInto(version)) :
                    result.value[version][j] = Label(EdgesInto(version)[j][1])
        /\ \A i \in 1..Len(Document.Edges) :
              Label(Document.Edges[i][1]) \in Range(result.value[Label(Document.Edges[i][2])])
        /\ TotalLen(result.value, DOMAIN result.value) = Len(Document.Edges)

\* a target with two incoming edges from differently labelled sources keeps both
C18_Witness ==
    /\ Built
    /\ \E version \in DOMAIN result.value :
          /\ Len(result.value[version]) = 2
          /\ result.value[version][1] # result.value[version][2]

----------------------------------------------------------------------------
(* Claims on the fetches of generateReport, under SpecFetch *)

\* the endpoints in the order in which generateReport asks them
Endpoints == <<"accepted", "all", "graph">>

\* the positions of the endpoints that do not answer with a body that decodes
Failing == {i \in 1..3 : responses[Endpoints[i]].kind # "ok"}

\* the first of them
FirstFailing == CHOOSE i \in Failing : \A j \in Failing : i <= j

\* C12: when a fetch fails, generateReport returns an error and the empty text, has
\* asked the endpoints up to the failing one once each and none after it; the text is
\* empty whenever an error is returned, and an error is returned only when a fetch fails.
C12_FetchFailureIsFatal ==
    pc = "done" =>
        /\ Failing # {} =>
              /\ result.err # ""
              /\ result.output = EmptyOutput
              /\ locals.fetched = SubSeq(Endpoints, 1, FirstFailing)
        /\ result.err # "" => (result.output = EmptyOutput /\ Failing # {})
        /\ Failing = {} => locals.fetched = Endpoints

\* the second fetch fails after the first returned streams, and the third would succeed
C12_Witness ==
    /\ pc = "done"
    /\ responses.accepted.kind = "ok"
    /\ DOMAIN acceptedReleases # {}
    /\ responses.all.kind = "status"
    /\ responses.graph.kind = "ok"
    /\ result.err = "non-OK http response code"
    /\ locals.fetched = <<"accepted", "all">>

----------------------------------------------------------------------------
(* Claims on the payloads of one stream, under SpecStream *)

\* a stream map without the payloads that have no readable date, in the streams that
\* have a payload with one
WithoutUnparsable(releases) ==
    [s \in DOMAIN releases |->
        IF Parsable(releases[s]) = {} THEN releases[s]
        ELSE SelectSeq(releases[s], LAMBDA payload : payload.ts # NoTs)]

\* the results of the classifier and of checkUpgrades in a result of generateReport
Analysis(r) ==
    <<r.upgrades, r.acceptedEmpty, r.acceptedStale, r.allEmpty, r.allStale, r.allVeryStale>>

\* C14: the results of getEmptyAndStaleStreams and of checkUpgrades are those obtained
\* from the same maps with the payloads without a readable date removed from every
\* stream that has a payload with one.
C14_UnparsablePayloadsIgnored ==
    pc = "done" =>
        Analysis(result) =
            Analysis(reportFindings(WithoutUnparsable(acceptedReleases),
                                    WithoutUnparsable(allReleases), nightlyGraph, o, now,
                                    FirstOrder))

\* a stream whose first payload has no readable date but an edge from its own minor
\* version, and whose other payload is too old: stale, and without a patch upgrade
C14_Witness ==
    /\ pc = "done"
    /\ \E s \in DOMAIN allReleases :
          /\ InWindow(s)
          /\ Len(allReleases[s]) = 2
          /\ allReleases[s][1].ts = NoTs
          /\ allReleases[s][1].minor = s.minor
          /\ allReleases[s][1] \in DOMAIN nightlyGraph
          /\ \E j \in 1..Len(nightlyGraph[allReleases[s][1]]) :
                nightlyGraph[allReleases[s][1]][j].minor = s.minor
          /\ allReleases[s][2].ts # NoTs
          /\ s \in DOMAIN result.allStale
          /\ result.allStale[s] = now - allReleases[s][2].ts
          /\ s \in DOMAIN result.upgrades
          /\ \E k \in 1..Len(result.upgrades[s]) : result.upgrades[s][k].text = NoPatchText

\* the stream has one payload, with a readable date and minor version and an edge from
\* a version of its own minor version
OnePayloadWithPatchSource(s) ==
    /\ InWindow(s)
    /\ Len(allReleases[s]) = 1
    /\ allReleases[s][1].ts # NoTs
    /\ allReleases[s][1].minor # NoMinor
    /\ allReleases[s][1] \in DOMAIN nightlyGraph
    /\ \E j \in 1..Len(nightlyGraph[allReleases[s][1]]) :
          nightlyGraph[allReleases[s][1]][j].minor = allReleases[s][1].minor

\* getEmptyAndStaleStreams took the payload of s as fresh
FreshForClassifier(s) == s \notin DOMAIN result.allStale

\* checkUpgrades took the payload of s as recent: its patch upgrade was found
RecentForValidator(s) ==
    ~(s \in DOMAIN result.upgrades
        /\ \E k \in 1..Len(result.upgrades[s]) : result.upgrades[s][k].text = NoPatchText)

\* C19: with one threshold T for both, a payload is fresh for getEmptyAndStaleStreams
\* when its age is below T and recent for checkUpgrades when its age is at most T: at
\* age T it is recent and not fresh, at every other age the two agree.
C19_DisagreeOnlyAtThreshold ==
    pc = "done" =>
        \A s \in DOMAIN allReleases :
            (OnePayloadWithPatchSource(s)
                /\ o.acceptedStalenessLimit = o.upgradeStalenessLimit) =>
                LET age == now - allReleases[s][1].ts
                    T == o.upgradeStalenessLimit
                IN  /\ FreshForClassifier(s) <=> age < T
                    /\ RecentForValidator(s) <=> age <= T
                    /\ age = T => (RecentForValidator(s) /\ ~FreshForClassifier(s))
                    /\ age # T => (RecentForValidator(s) <=> FreshForClassifier(s))

\* a payload exactly as old as the threshold: stale for the classifier, and its patch
\* upgrade counts
C19_Witness ==
    /\ pc = "done"
    /\ \E s \in DOMAIN allReleases :
          /\ OnePayloadWithPatchSource(s)
          /\ now - allReleases[s][1].ts = o.upgradeStalenessLimit
          /\ o.acceptedStalenessLimit = o.upgradeStalenessLimit
          /\ ~FreshForClassifier(s)
          /\ RecentForValidator(s)

----------------------------------------------------------------------------
(* Claims on the loops of checkUpgrades, under SpecScan *)

\* the payloads and the threshold of the release being scanned
ScannedPayloads == allReleases[locals.release]

\* the positions <<i, j>> of the sources that qualify for a category: source j of the
\* recent payload i, with a minor version d below the payload's
Qualifying(d) ==
    {p \in (1..Len(ScannedPayloads)) \X (1..MaxScanSize) :
        /\ p[1] \in Recent(ScannedPayloads, o.upgradeStalenessLimit)
        /\ p[2] <= Len(SourcesOfPayload(ScannedPayloads[p[1]]))
        /\ LET from == SourcesOfPayload(ScannedPayloads[p[1]])[p[2]]
           IN  from.minor # NoMinor /\ from.minor + d = ScannedPayloads[p[1]].minor}

\* p comes before q in the order of the two loops
Before(p, q) == p[1] < q[1] \/ (p[1] = q[1] /\ p[2] <= q[2])

FirstQualifying(d) == CHOOSE p \in Qualifying(d) : \A q \in Qualifying(d) : Before(p, q)

\* the found record made of the source at position p
FoundAt(p) ==
    Found(SourcesOfPayload(ScannedPayloads[p[1]])[p[2]], now - ScannedPayloads[p[1]].ts)

\* C15: when the loop over the payloads of a release has ended, the found record of each
\* category is the first qualifying source in the order of the payloads and of their
\* adjacency lists.
C15_FirstQualifyingRetained ==
    pc = "findings" =>
        /\ Qualifying(0) # {} => locals.foundPatch = FoundAt(FirstQualifying(0))
        /\ Qualifying(1) # {} => locals.foundMinor = FoundAt(FirstQualifying(1))

\* both found records of the release being scanned are set
BothFound ==
    /\ pc \in {"payload", "source"}
    /\ ~locals.foundMinor.nil
    /\ ~locals.foundPatch.nil

\* C16: once both found records are set, the next step of checkUpgrades on the release is
\* the end of its loop over payloads: no payload and no source is looked at, and the
\* found records stay as they are.
C16_StopsOnceBothFound ==
    [][BothFound => (pc' = "findings" /\ locals' = locals)]_vars

----------------------------------------------------------------------------
(* Claims on the findings generateReport adds, under Spec and SpecStream *)

\* the texts of the findings in the section of stream s
SectionTexts(s) ==
    UNION {{result.output.sections[i].findings[k].text :
                k \in 1..Len(result.output.sections[i].findings)} :
           i \in {x \in 1..Len(result.output.sections) :
                     result.output.sections[x].stream = s}}

\* the all map lists s with at least one payload
HasBuilt(s) == s \in DOMAIN allReleases /\ allReleases[s] # <<>>

\* C17: a stream that is empty in the accepted map has a finding that says that built
\* payloads exist only if the all map holds a payload of it; with an empty list in the
\* all map its section says "Has no built payloads" and none of the two.
C17_BuiltFindingOnlyWithBuiltPayloads ==
    pc = "done" =>
        \A s \in DOMAIN acceptedReleases :
            (InWindow(s) /\ acceptedReleases[s] = <<>>) =>
                /\ SectionTexts(s) \cap {RecentlyBuiltText, BuiltText} # {} => HasBuilt(s)
                /\ (s \in DOMAIN allReleases /\ allReleases[s] = <<>>)
                      => NoBuiltText \in SectionTexts(s)

\* the stale map of the all map under the threshold T
StaleUnder(T) ==
    getEmptyAndStaleStreams(allReleases, T, o.oldestMinor, o.newestMinor, now,
                            Induced(FirstOrder, DOMAIN allReleases)).stale

\* C20: a stream stale under a threshold is stale, with the same age, under every
\* smaller one; and with builtStalenessLimit >= acceptedStalenessLimit the section that
\* says "Most recently built payload was N days ago" says neither that recently built
\* payloads exist nor that the latest built payload is younger than the limit.
C20_StaleUnderSmallerThreshold ==
    pc = "done" =>
        LET stale == [T \in Limits |-> StaleUnder(T)]
        IN  /\ \A T1 \in Limits, T2 \in Limits :
                  T1 <= T2 =>
                      \A s \in DOMAIN stale[T2] :
                          s \in DOMAIN stale[T1] /\ stale[T1][s] = stale[T2][s]
            /\ result.allStale = stale[o.acceptedStalenessLimit]
            /\ result.allVeryStale = stale[o.builtStalenessLimit]
            /\ o.builtStalenessLimit >= o.acceptedStalenessLimit =>
                  \A s \in Reported :
                      VeryStaleText \in SectionTexts(s) =>
                          SectionTexts(s) \cap {RecentlyBuiltText, AcceptedLagText} = {}

\* the longer limit for built payloads, and a stream without accepted payloads whose
\* built payloads are stale under both limits: it is said to contain built payloads,
\* not recently built ones
C20_Witness ==
    /\ pc = "done"
    /\ o.builtStalenessLimit > o.acceptedStalenessLimit
    /\ \E s \in result.acceptedEmpty :
          /\ s \in DOMAIN result.allVeryStale
          /\ s \in DOMAIN result.allStale
          /\ result.allStale[s] = result.allVeryStale[s]
          /\ SectionTexts(s) \cap {VeryStaleText, BuiltText, RecentlyBuiltText}
                = {VeryStaleText, BuiltText}

----------------------------------------------------------------------------
(* Claims on msgCache and on the options of the server, under SpecCommand *)

\* the handler of delivery d carries an event and has not yet looked it up in msgCache
Waiting(d) ==
    /\ locals[d].req.valid
    /\ locals[d].req.Type = "event_callback"
    /\ locals[d].pc \in {"start", "lock", "check"}

\* the handler of delivery d was turned away as a duplicate
Ignored(d) ==
    locals[d].pc = "dupe" \/ (locals[d].pc = "returned" /\ locals[d].ret = "dupe")

\* the handler of delivery d has returned from a command that failed: an argument that
\* is no integer, a report that could not be generated, or a post that was not sent
Failed(d) ==
    /\ locals[d].pc = "returned"
    /\ \/ locals[d].ret \in {"parseError", "threadError"}
       \/ locals[d].ret = "end" /\ locals[d].status = 500
       \/ locals[d].msg.kind = "Sorry, an error occurred generating the report"

\* C21: no step takes an event out of msgCache; a handler reaches the command only with
\* its event in msgCache; a delivery whose event is in msgCache before it is looked up
\* never reaches the command, whatever became of the delivery that put it there; and a
\* delivery turned away posts nothing and generates no report.
C21_CacheOnlyGrows ==
    [][/\ msgCache \subseteq msgCache'
       /\ \A d \in Deliveries :
             /\ locals'[d].pc \in {"dispatch", "thread", "reply"}
                   => locals[d].req.TS \in msgCache
             /\ (Waiting(d) /\ locals[d].req.TS \in msgCache)
                   => locals'[d].pc \in {"start", "lock", "check", "dupe"}
             /\ Ignored(d)
                   => /\ locals'[d].pc \in {"dupe", "returned"}
                      /\ ~locals'[d].generated
                      /\ posts'[d] = <<>>]_vars

\* the first delivery of an event failed and the second one was turned away
C21_Witness ==
    /\ msgCache = {1}
    /\ \E d1, d2 \in Deliveries :
          /\ locals[d1].req.TS = locals[d2].req.TS
          /\ Failed(d1)
          /\ locals[d2].pc = "returned" /\ locals[d2].ret = "dupe"
          /\ posts[d2] = <<>>

\* the value of the last name=<integer> argument of the text, or default
LastValue(text, name, default) ==
    LET at == {i \in 1..Len(text) : text[i].eq /\ text[i].name = name}
    IN  IF at = {} THEN default
        ELSE text[CHOOSE i \in at : \A j \in at : j <= i].n

\* the options of the report asked for by text on a server started with startup
OwnOptions(text, startup) ==
    [startup EXCEPT !.oldestMinor = LastValue(text, "min", startup.oldestMinor),
                    !.newestMinor = LastValue(text, "max", startup.newestMinor),
                    !.includeHealthy = \E i \in 1..Len(text) : text[i] = PlainWord("healthy")]

\* C22: no step of a handler changes the options of the server, and the options a
\* report is generated with are those of the server with the min=, max= and healthy
\* arguments of the request's own text applied.
C22_OptionsUnchanged ==
    [][/\ o' = o
       /\ \A d \in Deliveries :
             locals'[d].generated =>
                 locals'[d].msg.options = OwnOptions(locals'[d].req.Text, o)]_vars

\* two report commands with different arguments were handled: each report has its own
\* window, and the options of the server are neither
C22_Witness ==
    \E d1, d2 \in Deliveries :
        /\ locals[d1].pc = "returned" /\ locals[d1].generated
        /\ locals[d2].pc = "returned" /\ locals[d2].generated
        /\ locals[d1].msg.options.oldestMinor # o.oldestMinor
        /\ locals[d1].msg.options.newestMinor = o.newestMinor
        /\ locals[d2].msg.options.oldestMinor = o.oldestMinor
        /\ locals[d2].msg.options.newestMinor # o.newestMinor
        /\ locals[d1].msg.options.includeHealthy # locals[d2].msg.options.includeHealthy

====
